---- MODULE Spec2Model ----
(***************************************************************************)
(* Model of the risk-assessment interview of src/main.py: the pure helpers *)
(* validate_answer and classify_answer, ReportAgent (record_answer,        *)
(* save_report), run_question and main.  Strings are sequences of          *)
(* one-character strings so that strip/split/upper/lower/rstrip are        *)
(* computed, not assumed.                                                  *)
(***************************************************************************)
EXTENDS Integers, Sequences, FiniteSets, TLC

\* ------------------------------------------------------------------------
\* Bounds
\* ------------------------------------------------------------------------
\* Largest number of (domain, question) items of a questionnaire.
MaxItems == 3
\* Largest number of pieces a generated input string is put together from.
MaxPieces == 3

\* ------------------------------------------------------------------------
\* Python string primitives, on sequences of characters
\* ------------------------------------------------------------------------
Whitespace == {" ", "\t"}

LowerLetters ==
  <<"a", "b", "c", "d", "e", "f", "g", "h", "i", "j", "k", "l", "m",
    "n", "o", "p", "q", "r", "s", "t", "u", "v", "w", "x", "y", "z">>

UpperLetters ==
  <<"A", "B", "C", "D", "E", "F", "G", "H", "I", "J", "K", "L", "M",
    "N", "O", "P", "Q", "R", "S", "T", "U", "V", "W", "X", "Y", "Z">>

\* Python's None (distinct from every string, the empty one included).
None == <<"<None>">>

upper_char(c) ==
  IF \E i \in 1..26 : LowerLetters[i] = c
  THEN UpperLetters[CHOOSE i \in 1..26 : LowerLetters[i] = c]
  ELSE c

lower_char(c) ==
  IF \E i \in 1..26 : UpperLetters[i] = c
  THEN LowerLetters[CHOOSE i \in 1..26 : UpperLetters[i] = c]
  ELSE c

\* str.upper()
upper(s) == [i \in 1..Len(s) |-> upper_char(s[i])]

\* str.lower()
lower(s) == [i \in 1..Len(s) |-> lower_char(s[i])]

RECURSIVE lstrip(_)
\* str.lstrip(): drop the leading whitespace
lstrip(s) ==
  IF s = <<>> THEN <<>>
  ELSE IF Head(s) \in Whitespace THEN lstrip(Tail(s)) ELSE s

RECURSIVE rstrip(_, _)
\* str.rstrip(chars): drop every trailing character that is in chars
rstrip(s, chars) ==
  IF s = <<>> THEN <<>>
  ELSE IF s[Len(s)] \in chars THEN rstrip(SubSeq(s, 1, Len(s) - 1), chars)
       ELSE s

\* str.strip()
strip(s) == rstrip(lstrip(s), Whitespace)

\* Length of the first whitespace-free run of a string that starts with one.
WordLen(s) ==
  IF \E i \in 1..Len(s) : s[i] \in Whitespace
  THEN (CHOOSE i \in 1..Len(s) :
          /\ s[i] \in Whitespace
          /\ \A j \in 1..(i - 1) : s[j] \notin Whitespace) - 1
  ELSE Len(s)

RECURSIVE split(_)
\* str.split() without arguments: the maximal whitespace-free runs, in order
split(s) ==
  LET t == lstrip(s) IN
    IF t = <<>> THEN <<>>
    ELSE <<SubSeq(t, 1, WordLen(t))>> \o split(SubSeq(t, WordLen(t) + 1, Len(t)))

\* ------------------------------------------------------------------------
\* String literals of the program
\* ------------------------------------------------------------------------
YES == <<"Y", "E", "S">>
NO == <<"N", "O">>
NOT_APPLICABLE == <<"N", "O", "T", " ", "A", "P", "P", "L", "I", "C", "A", "B", "L", "E">>
INVALID == <<"I", "N", "V", "A", "L", "I", "D">>

valid_starts == {YES, NO, NOT_APPLICABLE}

question_words ==
  { <<"w", "h", "a", "t">>, <<"w", "h", "y">>, <<"h", "o", "w">>,
    <<"w", "h", "e", "n">>, <<"w", "h", "e", "r", "e">>,
    <<"w", "h", "i", "c", "h">>, <<"w", "h", "o">> }

\* ------------------------------------------------------------------------
\* Pure functions of the program
\* ------------------------------------------------------------------------
\* ReportAgent.validate_answer
validate_answer(response) ==
  LET words == split(strip(response))
      first_word == IF words # <<>> THEN rstrip(upper(words[1]), {",", "."})
                    ELSE INVALID
  IN IF first_word \in valid_starts THEN first_word ELSE INVALID

\* classify_answer without the lower() of line 165.
classify_answer_NoLower(answer0) ==
  LET answer == strip(answer0) IN
    IF \E i \in 1..Len(answer) : answer[i] = "?" THEN "clarification"
    ELSE IF split(answer) # <<>> /\ split(answer)[1] \in question_words
         THEN "clarification"
         ELSE "valid"

\* classify_answer with a third outcome, for replies validate_answer rejects.
classify_answer_Invalid(answer0) ==
  LET answer == lower(strip(answer0)) IN
    IF \E i \in 1..Len(answer) : answer[i] = "?" THEN "clarification"
    ELSE IF split(answer) # <<>> /\ split(answer)[1] \in question_words
         THEN "clarification"
    ELSE IF validate_answer(answer0) = INVALID THEN "invalid"
         ELSE "valid"

\* classify_answer
classify_answer(answer0) ==
  LET answer == lower(strip(answer0)) IN
    IF \E i \in 1..Len(answer) : answer[i] = "?" THEN "clarification"
    ELSE IF split(answer) # <<>> /\ split(answer)[1] \in question_words
         THEN "clarification"
         ELSE "valid"

\* ------------------------------------------------------------------------
\* Inputs: questionnaires, respondent lines, collaborator outputs
\* ------------------------------------------------------------------------
DomainNames == <<"Access", "Network">>

Q_MFA == <<"M", "F", "A", "?">>
Q_LOGS == <<" ", "L", "o", "g", "\"", "\\", " ">>

QuestionTexts == {Q_MFA, Q_LOGS}

\* A dict's items come domain by domain: the domain index never decreases
\* and grows by at most one from an item to the next.
Grouped(idx) ==
  /\ Len(idx) > 0 => idx[1] = 1
  /\ \A i \in 1..(Len(idx) - 1) : idx[i + 1] \in {idx[i], idx[i] + 1}

\* The flattened questionnaires: [(domain, q) for domain, qs in ... for q in qs]
QuestionLists ==
  { [i \in 1..Len(idx) |-> <<DomainNames[idx[i]], txt[i]>>] :
      <<idx, txt>> \in
        { p \in UNION { [1..n -> 1..Len(DomainNames)] \X [1..n -> QuestionTexts] :
                          n \in 0..MaxItems } : Grouped(p[1]) } }

\* Lines the respondent may type (before input(...).strip()).
Replies ==
  { <<"Y", "e", "s", ",", " ", "o", "k", ".">>,
    <<" ", "n", "o", ".", " ">>,
    <<"b", "a", "n", "a", "n", "a">>,
    <<"N", "O", "T", " ", "A", "P", "P", "L", "I", "C", "A", "B", "L", "E">>,
    <<"W", "h", "a", "t", " ", "i", "s", " ", "M", "F", "A", "?">>,
    <<"N", "o", ",", " ", "w", "h", "y", "?">>,
    <<>> }

\* Message texts a question run of the controller may produce for question q:
\* no message, the question itself, a padded copy, a rewording, two messages.
Q_REWORDED == <<"I", "s", " ", "M", "F", "A", " ", "o", "n", "?">>

RephraserOutputs(q) ==
  { <<>>, <<q>>, <<<<" ">> \o strip(q) \o <<" ">>>>, <<Q_REWORDED>>,
    <<Q_REWORDED, q>> }

\* Message texts of the answer checker: none, or one of its three verdicts.
CheckerOutputs ==
  { <<>>,
    <<<<"v", "a", "l", "i", "d">>>>,
    <<<<"C", "l", "a", "r", "i", "f", "i", "c", "a", "t", "i", "o", "n">>>>,
    <<<<" ", "o", "f", "f", "_", "t", "o", "p", "i", "c">>>> }

\* ------------------------------------------------------------------------
\* State
\* ------------------------------------------------------------------------
VARIABLES
  questions_list,    \* main: the flattened questionnaire
  qi,                \* main: 1-based position of the for loop
  pc,                \* control point
  context,           \* run_question: RiskAssessmentContext
  asked_question,    \* run_question: text printed as the question
  input_items,       \* run_question: input of the last controller run
  user_ans,          \* run_question: last reply read by run_question
  classification,    \* run_question: classify_answer(user_ans)
  check_input,       \* run_question: input of the answer checker
  ACclassification,  \* run_question: verdict text of the answer checker
  response,          \* record_answer: parameter, rebound by the re-prompt
  validated_answer,  \* record_answer: validate_answer(response)
  ra_result,         \* run_question: value returned by record_answer
  recorded_msg,      \* run_question: "recorded successfully" was printed
  responses,         \* ReportAgent.responses
  file,              \* the report file on disk
  checker_runs,      \* run_question: runs of the answer checker so far
  events,            \* run_question: controller runs and printed questions
                     \* since the last reply was read
  twin               \* a second interview: same questionnaire, same
                     \* replies and controller outputs, its own verdicts

vars ==
  <<questions_list, qi, pc, context, asked_question, input_items, user_ans,
    classification, check_input, ACclassification, response, validated_answer,
    ra_result, recorded_msg, responses, file, checker_runs, events, twin>>

\* The locals of one run_question call.
locals ==
  <<asked_question, input_items, user_ans, classification, check_input,
    ACclassification, response, validated_answer, ra_result, recorded_msg,
    checker_runs, events>>

\* No controller or checker run has been made yet.
NoInput == [content |-> None, role |-> "none"]

\* The fixed parts of the f-strings of lines 223 and 257.
ClarifyPrefix ==
  <<"C", "l", "a", "r", "i", "f", "y", " ", "t", "h", "e", " ", "q", "u", "e", "s", "t", "i", "o", "n", ":", " ">>
UserAskedInfix ==
  <<"\n", "U", "s", "e", "r", " ", "a", "s", "k", "e", "d", ":", " ">>
QuestionPrefix ==
  <<"Q", "u", "e", "s", "t", "i", "o", "n", ":", " ">>
AnswerInfix ==
  <<"\n", "A", "n", "s", "w", "e", "r", ":", " ">>

\* Line 223: f"Clarify the question: {current_question}\nUser asked: {user_ans}"
ClarPrompt(question, answer) ==
  ClarifyPrefix \o question \o UserAskedInfix \o answer

\* Line 257: f"Question: {current_question}\nAnswer: {user_ans}"
CheckPrompt(question, answer) ==
  QuestionPrefix \o question \o AnswerInfix \o answer

NoContext == [current_domain |-> None, current_question |-> None, user_response |-> None]

\* RiskAssessmentContext(current_domain=..., current_question=..., user_response=None)
RiskAssessmentContext(domain, question) ==
  [current_domain |-> domain, current_question |-> question, user_response |-> None]

\* The twin interview before its first step.
TwinInit ==
  [qi |-> 1, pc |-> "main", context |-> NoContext, asked_question |-> None,
   user_ans |-> None, classification |-> "unset", ACclassification |-> None,
   response |-> None, validated_answer |-> None, ra_result |-> None,
   recorded_msg |-> FALSE, responses |-> <<>>,
   file |-> [exists |-> FALSE, content |-> <<>>]]

Init ==
  /\ questions_list \in QuestionLists
  /\ qi = 1
  /\ pc = "main"
  /\ context = NoContext
  /\ asked_question = None
  /\ input_items = NoInput
  /\ user_ans = None
  /\ classification = "unset"
  /\ check_input = NoInput
  /\ ACclassification = None
  /\ response = None
  /\ validated_answer = None
  /\ ra_result = None
  /\ recorded_msg = FALSE
  /\ responses = <<>>
  /\ file = [exists |-> FALSE, content |-> <<>>]
  /\ checker_runs = 0
  /\ events = <<>>
  /\ twin = TwinInit

\* ------------------------------------------------------------------------
\* Helpers of run_question and record_answer
\* ------------------------------------------------------------------------
\* Lines 193-200 without the override of lines 198-200.
AskedQuestion_NoOverride(out, current_question) ==
  IF out = <<>> THEN <<>> ELSE strip(out[1])

\* Lines 193-200: the first message of the run, stripped; the original
\* question, stripped, when that differs from it (or there is no message).
AskedQuestion(out, current_question) ==
  LET first == IF out = <<>> THEN <<>> ELSE strip(out[1]) IN
    IF first # strip(current_question) THEN strip(current_question) ELSE first

RECURSIVE ReAskedQuestion(_, _, _)
\* Lines 239-244: every message of the run overwrites asked_question with its
\* stripped text, or with the stripped original when the two differ.
ReAskedQuestion(out, current_question, asked) ==
  IF out = <<>> THEN asked
  ELSE ReAskedQuestion(Tail(out), current_question,
                       AskedQuestion(<<Head(out)>>, current_question))

\* Line 201 or 244: a question text has been printed.
Printed(text) == [ev |-> "print", text |-> text, reply |-> None]

\* Lines 223-226: the controller has been run on the clarification prompt
\* made of the question and the reply.
ClarifierRun(question, reply) ==
  [ev |-> "clarifier", text |-> question, reply |-> reply]

\* Lines 239-244: "Question re-asked:" is printed once for every message of
\* the run, with the text lines 241-243 give it.
ReAskPrints(out, current_question) ==
  [i \in 1..Len(out) |-> Printed(AskedQuestion(<<out[i]>>, current_question))]

\* Lines 264-267: the stripped, lowercased text of the last message, or None.
CheckerVerdict(out) ==
  IF out = <<>> THEN None ELSE lower(strip(out[Len(out)]))

\* Lines 215-251 without the two loops: every reply goes on to the checker.
AfterTriage_NoLoops(c) == "answer_check"

\* Lines 215 and 221: the loop the orchestrator is in after a triage.
AfterTriage(c) ==
  IF c = "invalid" THEN "await_invalid"
  ELSE IF c = "clarification" THEN "clarify"
  ELSE "answer_check"

\* The stricter policy of the commented-out lines 271-310: only the verdict
\* valid lets the answer through, any other one asks for a new answer.
AfterCheck_Enforced(verdict) ==
  IF verdict = <<"v", "a", "l", "i", "d">> THEN "record_answer" ELSE "await_answer"

\* A run that gives the question up on the verdict off_topic.
AfterCheck_SkipOffTopic(verdict) ==
  IF verdict = <<"o", "f", "f", "_", "t", "o", "p", "i", "c">>
  THEN "save_open" ELSE "record_answer"

\* Line 317's call: where run_question goes once the checker has answered.
AfterCheck(verdict) == "record_answer"

\* Line 66: a record for this question is already in the report.
AlreadyRecorded(rs, question) ==
  \E i \in 1..Len(rs) : rs[i].Question = question

\* Lines 59-63
StructuredResponse(question, validated, resp) ==
  [Question |-> question, Answer |-> validated, EntireAnswer |-> strip(resp)]

\* Lines 66-67 without the duplicate test.
Recorded_NoDedupe(rs, question, validated, resp) ==
  Append(rs, StructuredResponse(question, validated, resp))

\* Lines 66-67 with the later answer replacing the earlier one.
Recorded_Overwrite(rs, question, validated, resp) ==
  IF ~AlreadyRecorded(rs, question)
  THEN Append(rs, StructuredResponse(question, validated, resp))
  ELSE [i \in 1..Len(rs) |->
          IF rs[i].Question = question
          THEN StructuredResponse(question, validated, resp) ELSE rs[i]]

\* Lines 66-67 with insert(0, ...) in the place of append(...).
Recorded_Prepend(rs, question, validated, resp) ==
  IF ~AlreadyRecorded(rs, question)
  THEN <<StructuredResponse(question, validated, resp)>> \o rs
  ELSE rs

\* Lines 66-67 with the report restarted at every new question.
Recorded_Restart(rs, question, validated, resp) ==
  IF AlreadyRecorded(rs, question) THEN rs
  ELSE <<StructuredResponse(question, validated, resp)>>

\* Lines 66-67: append unless the question is already recorded.
Recorded(rs, question, validated, resp) ==
  IF ~AlreadyRecorded(rs, question)
  THEN Append(rs, StructuredResponse(question, validated, resp))
  ELSE rs

\* record_answer has no return statement: it returns None.
RecordAnswerResult(rs, question) == None

\* Python truthiness of a string or None.
Truthy(v) == v # None /\ v # <<>>

\* ------------------------------------------------------------------------
\* json.dump(responses, f, indent=4): the text written to the report file
\* ------------------------------------------------------------------------
\* One character of a JSON string: '"', '\', newline and tab are escaped.
JsonEscapeChar(c) ==
  IF c = "\"" THEN <<"\\", "\"">>
  ELSE IF c = "\\" THEN <<"\\", "\\">>
  ELSE IF c = "\n" THEN <<"\\", "n">>
  ELSE IF c = "\t" THEN <<"\\", "t">>
  ELSE <<c>>

RECURSIVE JsonEscape(_)
JsonEscape(s) ==
  IF s = <<>> THEN <<>> ELSE JsonEscapeChar(Head(s)) \o JsonEscape(Tail(s))

JsonString(s) == <<"\"">> \o JsonEscape(s) \o <<"\"">>

\* The indentation of nesting depth n under indent=4.
Indent(n) == [i \in 1..(4 * n) |-> " "]

\* The keys of a record, lines 60-62.
KeyQuestion == <<"Q", "u", "e", "s", "t", "i", "o", "n">>
KeyAnswer == <<"A", "n", "s", "w", "e", "r">>
KeyEntireAnswer ==
  <<"E", "n", "t", "i", "r", "e", " ", "A", "n", "s", "w", "e", "r">>

JsonMember(key, value) == JsonString(key) \o <<":", " ">> \o JsonString(value)

\* One record: an object of three members, in the order of lines 60-62.
JsonObject(r) ==
  <<"{", "\n">> \o Indent(2) \o JsonMember(KeyQuestion, r.Question)
    \o <<",", "\n">> \o Indent(2) \o JsonMember(KeyAnswer, r.Answer)
    \o <<",", "\n">> \o Indent(2) \o JsonMember(KeyEntireAnswer, r.EntireAnswer)
    \o <<"\n">> \o Indent(1) \o <<"}">>

RECURSIVE JsonElements(_)
\* The records of a non-empty list, separated by ',' and a new line.
JsonElements(rs) ==
  IF Len(rs) = 1 THEN JsonObject(rs[1])
  ELSE JsonObject(rs[1]) \o <<",", "\n">> \o Indent(1) \o JsonElements(Tail(rs))

\* json.dump(rs, f, indent=4)
json_dump(rs) ==
  IF rs = <<>> THEN <<"[", "]">>
  ELSE <<"[", "\n">> \o Indent(1) \o JsonElements(rs) \o <<"\n", "]">>

\* open(filename, "a"): the file keeps what it holds.
OpenedForWriting_Append(f) ==
  [exists |-> TRUE, content |-> IF f.exists THEN f.content ELSE <<>>]

\* open(filename, "w"): the file exists and is empty.
OpenedForWriting(f) == [exists |-> TRUE, content |-> <<>>]

\* ------------------------------------------------------------------------
\* Actions
\* ------------------------------------------------------------------------
\* main, lines 327-328, and run_question, lines 179-185: the next question.
StartQuestion ==
  /\ pc = "main"
  /\ qi <= Len(questions_list)
  /\ context' = RiskAssessmentContext(questions_list[qi][1], questions_list[qi][2])
  /\ asked_question' = None
  /\ input_items' = NoInput
  /\ user_ans' = None
  /\ classification' = "unset"
  /\ check_input' = NoInput
  /\ ACclassification' = None
  /\ response' = None
  /\ validated_answer' = None
  /\ ra_result' = None
  /\ recorded_msg' = FALSE
  /\ checker_runs' = 0
  /\ pc' = "ask"
  /\ events' = <<>>
  /\ UNCHANGED <<questions_list, qi, responses, file>>

\* run_question, lines 188-207: run the controller on the question, print it.
AskQuestion(out) ==
  /\ pc = "ask"
  /\ input_items' = [content |-> context.current_question, role |-> "system"]
  /\ asked_question' = AskedQuestion(out, context.current_question)
  /\ pc' = "await_answer"
  /\ events' = <<Printed(asked_question')>>
  /\ UNCHANGED <<questions_list, qi, context, user_ans, classification,
                 check_input, ACclassification, response, validated_answer,
                 ra_result, recorded_msg, responses, file,
                 checker_runs>>

\* run_question, lines 210-212, 216-219 and 249-251: read a reply, triage it.
ReadReply(raw) ==
  /\ pc \in {"await_answer", "await_invalid", "await_clarified"}
  /\ user_ans' = strip(raw)
  /\ context' = [context EXCEPT !.user_response = strip(raw)]
  /\ classification' = classify_answer(strip(raw))
  /\ pc' = AfterTriage(classification')
  /\ events' = <<>>
  /\ UNCHANGED <<questions_list, qi, asked_question, input_items, check_input,
                 ACclassification, response, validated_answer, ra_result,
                 recorded_msg, responses, file,
                 checker_runs>>

\* run_question, lines 223-232: run the controller on the clarification prompt.
Clarify ==
  /\ pc = "clarify"
  /\ input_items' = [content |-> ClarPrompt(context.current_question, user_ans),
                     role |-> "user"]
  /\ pc' = "reask"
  /\ events' = Append(events, ClarifierRun(context.current_question, user_ans))
  /\ UNCHANGED <<questions_list, qi, context, asked_question, user_ans,
                 classification, check_input, ACclassification, response,
                 validated_answer, ra_result, recorded_msg, responses, file,
                 checker_runs>>

\* run_question, lines 235-246: run the controller on the question again.
ReAsk(out) ==
  /\ pc = "reask"
  /\ input_items' = [content |-> context.current_question, role |-> "system"]
  /\ asked_question' = ReAskedQuestion(out, context.current_question, asked_question)
  /\ pc' = "await_clarified"
  /\ events' = events \o ReAskPrints(out, context.current_question)
  /\ UNCHANGED <<questions_list, qi, context, user_ans, classification,
                 check_input, ACclassification, response, validated_answer,
                 ra_result, recorded_msg, responses, file,
                 checker_runs>>

\* run_question, lines 256-268 and the call of line 317: run the answer
\* checker, keep its verdict, enter record_answer(current_question, user_ans).
AnswerCheck(out) ==
  /\ pc = "answer_check"
  /\ check_input' = [content |-> CheckPrompt(context.current_question, user_ans),
                     role |-> "user"]
  /\ ACclassification' = CheckerVerdict(out)
  /\ response' = user_ans
  /\ checker_runs' = checker_runs + 1
  /\ pc' = AfterCheck(ACclassification')
  /\ UNCHANGED <<events, questions_list, qi, context, asked_question, input_items,
                 user_ans, classification, validated_answer, ra_result,
                 recorded_msg, responses, file>>

\* record_answer without its loop: whatever the validation says, go on.
ValidateResponse_NoLoop ==
  /\ pc = "record_answer"
  /\ validated_answer' = validate_answer(response)
  /\ pc' = "store"
  /\ UNCHANGED <<events, questions_list, qi, context, asked_question, input_items,
                 user_ans, classification, check_input, ACclassification,
                 response, ra_result, recorded_msg, responses, file,
                 checker_runs>>

\* record_answer, lines 50-52 and 55-56: validate the response.
ValidateResponse ==
  /\ pc = "record_answer"
  /\ validated_answer' = validate_answer(response)
  /\ pc' = IF validated_answer' = INVALID THEN "format_prompt" ELSE "store"
  /\ UNCHANGED <<events, questions_list, qi, context, asked_question, input_items,
                 user_ans, classification, check_input, ACclassification,
                 response, ra_result, recorded_msg, responses, file,
                 checker_runs>>

\* record_answer, line 54: ask again for YES, NO or NOT APPLICABLE.
FormatReprompt(raw) ==
  /\ pc = "format_prompt"
  /\ response' = strip(raw)
  /\ pc' = "record_answer"
  /\ UNCHANGED <<events, questions_list, qi, context, asked_question, input_items,
                 user_ans, classification, check_input, ACclassification,
                 validated_answer, ra_result, recorded_msg, responses, file,
                 checker_runs>>

\* record_answer, lines 59-70, and its return to line 317.
StoreAnswer ==
  /\ pc = "store"
  /\ responses' = Recorded(responses, context.current_question,
                           validated_answer, response)
  /\ ra_result' = RecordAnswerResult(responses', context.current_question)
  /\ pc' = "returned"
  /\ UNCHANGED <<events, questions_list, qi, context, asked_question, input_items,
                 user_ans, classification, check_input, ACclassification,
                 response, validated_answer, recorded_msg, file,
                 checker_runs>>

\* run_question, lines 317-321: test the result, go on to save_report.
AfterRecord ==
  /\ pc = "returned"
  /\ recorded_msg' = Truthy(ra_result)
  /\ pc' = "save_open"
  /\ UNCHANGED <<events, questions_list, qi, context, asked_question, input_items,
                 user_ans, classification, check_input, ACclassification,
                 response, validated_answer, ra_result, responses, file,
                 checker_runs>>

\* main, line 330: the save after the last question.
FinalSave ==
  /\ pc = "main"
  /\ qi > Len(questions_list)
  /\ pc' = "save_open"
  /\ UNCHANGED <<questions_list, qi, context, locals, responses, file>>

\* save_report, line 74: open(filename, "w") creates or truncates the file.
SaveOpen ==
  /\ pc = "save_open"
  /\ file' = OpenedForWriting(file)
  /\ pc' = "save_dump"
  /\ UNCHANGED <<questions_list, qi, context, locals, responses>>

\* save_report, lines 75-76: dump the responses, close the file, return:
\* to main's loop from run_question, to the end of main from line 330.
SaveDump ==
  /\ pc = "save_dump"
  /\ file' = [exists |-> TRUE, content |-> file.content \o json_dump(responses)]
  /\ IF qi <= Len(questions_list)
     THEN /\ qi' = qi + 1
          /\ pc' = "main"
     ELSE /\ qi' = qi
          /\ pc' = "done"
  /\ UNCHANGED <<questions_list, context, locals, responses>>

Next ==
  \/ StartQuestion /\ UNCHANGED twin
  \/ \E out \in RephraserOutputs(context.current_question) :
       AskQuestion(out) /\ UNCHANGED twin
  \/ \E raw \in Replies : ReadReply(raw) /\ UNCHANGED twin
  \/ Clarify /\ UNCHANGED twin
  \/ \E out \in RephraserOutputs(context.current_question) :
       ReAsk(out) /\ UNCHANGED twin
  \/ \E out \in CheckerOutputs : AnswerCheck(out) /\ UNCHANGED twin
  \/ ValidateResponse /\ UNCHANGED twin
  \/ \E raw \in Replies : FormatReprompt(raw) /\ UNCHANGED twin
  \/ StoreAnswer /\ UNCHANGED twin
  \/ AfterRecord /\ UNCHANGED twin
  \/ FinalSave /\ UNCHANGED twin
  \/ SaveOpen /\ UNCHANGED twin
  \/ SaveDump /\ UNCHANGED twin

Spec == Init /\ [][Next]_vars

\* ------------------------------------------------------------------------
\* The twin interview: the same program on the record twin, driven by the
\* same questionnaire, replies and controller outputs as the first one, but
\* by answer-checker outputs of its own
\* ------------------------------------------------------------------------
TwinStartQuestion ==
  /\ twin.pc = "main"
  /\ twin.qi <= Len(questions_list)
  /\ twin' = [twin EXCEPT
       !.context = RiskAssessmentContext(questions_list[twin.qi][1],
                                         questions_list[twin.qi][2]),
       !.asked_question = None, !.user_ans = None, !.classification = "unset",
       !.ACclassification = None, !.response = None, !.validated_answer = None,
       !.ra_result = None, !.recorded_msg = FALSE, !.pc = "ask"]

TwinAskQuestion(out) ==
  /\ twin.pc = "ask"
  /\ twin' = [twin EXCEPT
       !.asked_question = AskedQuestion(out, twin.context.current_question),
       !.pc = "await_answer"]

TwinReadReply(raw) ==
  /\ twin.pc \in {"await_answer", "await_invalid", "await_clarified"}
  /\ twin' = [twin EXCEPT
       !.user_ans = strip(raw),
       !.context.user_response = strip(raw),
       !.classification = classify_answer(strip(raw)),
       !.pc = AfterTriage(classify_answer(strip(raw)))]

TwinClarify ==
  /\ twin.pc = "clarify"
  /\ twin' = [twin EXCEPT !.pc = "reask"]

TwinReAsk(out) ==
  /\ twin.pc = "reask"
  /\ twin' = [twin EXCEPT
       !.asked_question = ReAskedQuestion(out, twin.context.current_question,
                                          twin.asked_question),
       !.pc = "await_clarified"]

TwinAnswerCheck(out) ==
  /\ twin.pc = "answer_check"
  /\ twin' = [twin EXCEPT
       !.ACclassification = CheckerVerdict(out),
       !.response = twin.user_ans,
       !.pc = AfterCheck(CheckerVerdict(out))]

TwinValidateResponse ==
  /\ twin.pc = "record_answer"
  /\ twin' = [twin EXCEPT
       !.validated_answer = validate_answer(twin.response),
       !.pc = IF validate_answer(twin.response) = INVALID
              THEN "format_prompt" ELSE "store"]

TwinFormatReprompt(raw) ==
  /\ twin.pc = "format_prompt"
  /\ twin' = [twin EXCEPT !.response = strip(raw), !.pc = "record_answer"]

TwinStoreAnswer ==
  /\ twin.pc = "store"
  /\ LET rs == Recorded(twin.responses, twin.context.current_question,
                        twin.validated_answer, twin.response)
     IN twin' = [twin EXCEPT
          !.responses = rs,
          !.ra_result = RecordAnswerResult(rs, twin.context.current_question),
          !.pc = "returned"]

TwinAfterRecord ==
  /\ twin.pc = "returned"
  /\ twin' = [twin EXCEPT !.recorded_msg = Truthy(twin.ra_result),
                          !.pc = "save_open"]

TwinFinalSave ==
  /\ twin.pc = "main"
  /\ twin.qi > Len(questions_list)
  /\ twin' = [twin EXCEPT !.pc = "save_open"]

TwinSaveOpen ==
  /\ twin.pc = "save_open"
  /\ twin' = [twin EXCEPT !.file = OpenedForWriting(twin.file),
                          !.pc = "save_dump"]

TwinSaveDump ==
  /\ twin.pc = "save_dump"
  /\ twin' = [twin EXCEPT
       !.file = [exists |-> TRUE,
                 content |-> twin.file.content \o json_dump(twin.responses)],
       !.qi = IF twin.qi <= Len(questions_list) THEN twin.qi + 1 ELSE twin.qi,
       !.pc = IF twin.qi <= Len(questions_list) THEN "main" ELSE "done"]

\* Both interviews take the same kind of step on the same input; only the
\* answer checker's output is chosen for each of them separately.
NextTwin ==
  \/ StartQuestion /\ TwinStartQuestion
  \/ \E out \in RephraserOutputs(context.current_question) :
       AskQuestion(out) /\ TwinAskQuestion(out)
  \/ \E raw \in Replies : ReadReply(raw) /\ TwinReadReply(raw)
  \/ Clarify /\ TwinClarify
  \/ \E out \in RephraserOutputs(context.current_question) :
       ReAsk(out) /\ TwinReAsk(out)
  \/ \E out \in CheckerOutputs, tout \in CheckerOutputs :
       AnswerCheck(out) /\ TwinAnswerCheck(tout)
  \/ ValidateResponse /\ TwinValidateResponse
  \/ \E raw \in Replies : FormatReprompt(raw) /\ TwinFormatReprompt(raw)
  \/ StoreAnswer /\ TwinStoreAnswer
  \/ AfterRecord /\ TwinAfterRecord
  \/ FinalSave /\ TwinFinalSave
  \/ SaveOpen /\ TwinSaveOpen
  \/ SaveDump /\ TwinSaveDump

SpecTwin == Init /\ [][NextTwin]_vars

\* ------------------------------------------------------------------------
\* The pure functions on their own: validate_answer and classify_answer
\* applied to every string put together from at most MaxPieces pieces
\* ------------------------------------------------------------------------
Pieces ==
  { <<"y", "e", "s">>, <<"N", "O">>, <<"N", "o", "t">>,
    <<"a", "p", "p", "l", "i", "c", "a", "b", "l", "e">>,
    <<"w", "h", "a", "t">>, <<"W", "h", "o">>, <<"x">>,
    <<",">>, <<".">>, <<"?">>, <<" ">>, <<"\t">> }

RECURSIVE Concats(_)
Concats(n) ==
  IF n = 0 THEN {<<>>}
  ELSE LET shorter == Concats(n - 1) IN
         shorter \cup {p \o x : p \in shorter, x \in Pieces}

ScenarioReplies ==
  { <<"Y", "e", "s", ",", " ", "w", "e", " ", "d", "o", ".">>,
    <<"W", "h", "a", "t", " ", "d", "o", "e", "s", " ", "M", "F", "A", " ",
      "m", "e", "a", "n", "?">>,
    <<"b", "a", "n", "a", "n", "a">>,
    <<"n", "o", "t", " ", "a", "p", "p", "l", "i", "c", "a", "b", "l", "e", ",",
      " ", "s", "e", "e", " ", "a", "t", "t", "a", "c", "h", "e", "d">> }

PureInputs == Concats(MaxPieces) \cup ScenarioReplies

InitPure ==
  /\ questions_list = <<>>
  /\ qi = 1
  /\ pc = "pure"
  /\ context = NoContext
  /\ asked_question = None
  /\ input_items = NoInput
  /\ user_ans = None
  /\ classification = "unset"
  /\ check_input = NoInput
  /\ ACclassification = None
  /\ response \in PureInputs
  /\ validated_answer = None
  /\ ra_result = None
  /\ recorded_msg = FALSE
  /\ responses = <<>>
  /\ file = [exists |-> FALSE, content |-> <<>>]
  /\ checker_runs = 0
  /\ events = <<>>
  /\ twin = TwinInit

\* validate_answer(response)
CallValidate ==
  /\ pc = "pure"
  /\ validated_answer = None
  /\ validated_answer' = validate_answer(response)
  /\ UNCHANGED <<events, questions_list, qi, pc, context, asked_question, input_items,
                 user_ans, classification, check_input, ACclassification,
                 response, ra_result, recorded_msg, responses, file,
                 checker_runs, twin>>

\* classify_answer(response)
CallClassify ==
  /\ pc = "pure"
  /\ classification = "unset"
  /\ classification' = classify_answer(response)
  /\ UNCHANGED <<events, questions_list, qi, pc, context, asked_question, input_items,
                 user_ans, check_input, ACclassification, response,
                 validated_answer, ra_result, recorded_msg, responses, file,
                 checker_runs, twin>>

NextPure == CallValidate \/ CallClassify

SpecPure == InitPure /\ [][NextPure]_vars

\* ------------------------------------------------------------------------
\* Properties
\* ------------------------------------------------------------------------
\* The format token of a reply as specified: the first whitespace-delimited
\* token, trailing ',' and '.' stripped, uppercased, when that is YES or NO;
\* NOT APPLICABLE when the reply begins with the two words NOT APPLICABLE;
\* the malformed marker otherwise.
Normalized(w) == rstrip(upper(w), {",", "."})

FormatToken(r) ==
  LET tokens == split(strip(r)) IN
    IF tokens = <<>> THEN INVALID
    ELSE IF Normalized(tokens[1]) \in {YES, NO} THEN Normalized(tokens[1])
    ELSE IF /\ Len(tokens) >= 2
            /\ upper(tokens[1]) = <<"N", "O", "T">>
            /\ Normalized(tokens[2]) = <<"A", "P", "P", "L", "I", "C", "A", "B", "L", "E">>
         THEN NOT_APPLICABLE
    ELSE INVALID

\* C4: validate_answer(r) is YES, NO or NOT APPLICABLE exactly when the
\* trimmed reply begins with that token or two-word phrase (case-insensitive,
\* trailing ',' and '.' stripped), and the malformed marker for every other
\* reply, the empty and the whitespace-only ones included.
C4_ValidateAsSpecified ==
  validated_answer # None => validated_answer = FormatToken(response)

\* The reply contains a '?'.
HasQuestionMark(r) == \E i \in 1..Len(r) : r[i] = "?"

\* After k leading whitespace characters the reply spells the word w, in any
\* case, and the word ends there: the reply ends or whitespace follows.
StartsWithWord(r, w) ==
  \E k \in 0..Len(r) :
    /\ \A i \in 1..k : r[i] \in Whitespace
    /\ k + Len(w) <= Len(r)
    /\ \A i \in 1..Len(w) : lower_char(r[k + i]) = w[i]
    /\ (k + Len(w) = Len(r) \/ r[k + Len(w) + 1] \in Whitespace)

\* C5: classify_answer(r) is 'clarification' if r contains '?' or its first
\* whitespace-delimited token, lowercased, is an interrogative word; it is
\* 'valid' otherwise, and never anything else.
C5_ClassifyAsSpecified ==
  classification # "unset" =>
    /\ classification \in {"clarification", "valid"}
    /\ classification = "clarification" <=>
         (HasQuestionMark(response) \/ \E w \in question_words : StartsWithWord(response, w))

\* C5 witness: a reply with a leading capitalised interrogative word and no
\* '?' has been classified, and so has a reply that merely starts with the
\* letters of one.
C5_Witness ==
  /\ classification = "clarification"
  /\ ~HasQuestionMark(response)
  /\ response[1] = "W"

\* ------------------------------------------------------------------------
\* json.load of a report file, as a reader of the file would run it
\* ------------------------------------------------------------------------
JsonWhitespace == {" ", "\n", "\t", "\r"}

ParseError == [ok |-> FALSE, value |-> <<>>, next |-> 0]

Parsed(v, n) == [ok |-> TRUE, value |-> v, next |-> n]

RECURSIVE SkipWhitespace(_, _)
\* The first position from i on that holds no whitespace.
SkipWhitespace(t, i) ==
  IF i <= Len(t) /\ t[i] \in JsonWhitespace THEN SkipWhitespace(t, i + 1) ELSE i

RECURSIVE ParseChars(_, _, _)
\* The rest of a string, from after its opening quote to its closing quote.
ParseChars(t, i, acc) ==
  IF i > Len(t) THEN ParseError
  ELSE IF t[i] = "\"" THEN Parsed(acc, i + 1)
  ELSE IF t[i] = "\\"
       THEN IF i + 1 > Len(t) THEN ParseError
            ELSE IF t[i + 1] \in {"\"", "\\", "/"}
                 THEN ParseChars(t, i + 2, Append(acc, t[i + 1]))
            ELSE IF t[i + 1] = "n" THEN ParseChars(t, i + 2, Append(acc, "\n"))
            ELSE IF t[i + 1] = "t" THEN ParseChars(t, i + 2, Append(acc, "\t"))
            ELSE ParseError
  ELSE IF t[i] \in {"\n", "\t"} THEN ParseError
  ELSE ParseChars(t, i + 1, Append(acc, t[i]))

ParseString(t, i) ==
  IF i <= Len(t) /\ t[i] = "\"" THEN ParseChars(t, i + 1, <<>>) ELSE ParseError

\* A member: a string, a colon, a string; the value is the pair.
ParseMember(t, i) ==
  LET k == ParseString(t, i)
      c == SkipWhitespace(t, k.next)
      v == ParseString(t, SkipWhitespace(t, c + 1))
  IN IF ~k.ok THEN ParseError
     ELSE IF c > Len(t) \/ t[c] # ":" THEN ParseError
     ELSE IF ~v.ok THEN ParseError
     ELSE Parsed(<<k.value, v.value>>, v.next)

RECURSIVE ParseMembers(_, _, _)
\* The members of an object from position i to its closing brace.
ParseMembers(t, i, acc) ==
  LET m == ParseMember(t, i)
      j == SkipWhitespace(t, m.next)
  IN IF ~m.ok \/ j > Len(t) THEN ParseError
     ELSE IF t[j] = "}" THEN Parsed(Append(acc, m.value), j + 1)
     ELSE IF t[j] = "," THEN ParseMembers(t, SkipWhitespace(t, j + 1),
                                          Append(acc, m.value))
     ELSE ParseError

ParseObject(t, i) ==
  IF i > Len(t) \/ t[i] # "{" THEN ParseError
  ELSE LET j == SkipWhitespace(t, i + 1) IN
         IF j <= Len(t) /\ t[j] = "}" THEN Parsed(<<>>, j + 1)
         ELSE ParseMembers(t, j, <<>>)

\* The value of a key in a sequence of members: the last one wins, None
\* stands for a key that is missing.
ValueOf(members, key) ==
  LET hits == {n \in 1..Len(members) : members[n][1] = key} IN
    IF hits = {} THEN None
    ELSE members[CHOOSE n \in hits : \A m \in hits : m <= n][2]

\* The dict of an object as a record of the report.
AsRecord(members) ==
  [Question |-> ValueOf(members, KeyQuestion),
   Answer |-> ValueOf(members, KeyAnswer),
   EntireAnswer |-> ValueOf(members, KeyEntireAnswer)]

RECURSIVE ParseElements(_, _, _)
\* The objects of an array from position i to its closing bracket.
ParseElements(t, i, acc) ==
  LET o == ParseObject(t, i)
      j == SkipWhitespace(t, o.next)
  IN IF ~o.ok \/ j > Len(t) THEN ParseError
     ELSE IF t[j] = "]" THEN Parsed(Append(acc, AsRecord(o.value)), j + 1)
     ELSE IF t[j] = "," THEN ParseElements(t, SkipWhitespace(t, j + 1),
                                           Append(acc, AsRecord(o.value)))
     ELSE ParseError

ParseArray(t, i) ==
  IF i > Len(t) \/ t[i] # "[" THEN ParseError
  ELSE LET j == SkipWhitespace(t, i + 1) IN
         IF j <= Len(t) /\ t[j] = "]" THEN Parsed(<<>>, j + 1)
         ELSE ParseElements(t, j, <<>>)

\* json.load(f): one array and nothing but whitespace after it; ok is FALSE
\* where json.load raises.
json_load(t) ==
  LET a == ParseArray(t, SkipWhitespace(t, 1)) IN
    IF a.ok /\ SkipWhitespace(t, a.next) > Len(t) THEN a ELSE ParseError

\* What a reader of the report file gets.
Loaded == IF file.exists THEN json_load(file.content) ELSE ParseError

\* The Question fields of a report, in order.
QuestionsOf(rs) == [i \in 1..Len(rs) |-> rs[i].Question]

\* The number of records of a report that carry the question q.
CountOf(rs, q) == Cardinality({i \in 1..Len(rs) : rs[i].Question = q})

\* The text of the k-th questionnaire item.
QuestionText(k) == questions_list[k][2]

\* run_question is executing for item qi (from its first line to its save).
InRunQuestion ==
  /\ qi <= Len(questions_list)
  /\ pc \in {"ask", "await_answer", "await_invalid", "await_clarified", "clarify",
             "reask", "answer_check", "record_answer", "format_prompt", "store",
             "returned", "save_open", "save_dump"}

\* C1: the in-memory report never holds two records with the same question.
C1_OneRecordPerQuestion ==
  \A i, j \in 1..Len(responses) :
    responses[i].Question = responses[j].Question => i = j

\* C1 witness: record_answer has returned for a question whose text occurred
\* earlier in the questionnaire, and the report has fewer records than items.
C1_Witness ==
  /\ pc = "returned"
  /\ \E k \in 1..(qi - 1) : QuestionText(k) = context.current_question
  /\ Len(responses) < qi

\* C2: when record_answer reaches its duplicate test with the question already
\* in the report, the step leaves the whole report as it was.
C2_DuplicateIsNoOp ==
  [][(pc = "store" /\ AlreadyRecorded(responses, context.current_question))
       => responses' = responses]_vars

\* C2 witness: an item with the text of an earlier item of another domain has
\* been through record_answer with a different accepted reply, and the record
\* still carries the earlier reply.
C2_Witness ==
  /\ pc = "returned"
  /\ \E k \in 1..(qi - 1) :
       /\ QuestionText(k) = context.current_question
       /\ questions_list[k][1] # context.current_domain
  /\ \E i \in 1..Len(responses) :
       /\ responses[i].Question = context.current_question
       /\ responses[i].EntireAnswer # response
       /\ responses[i].Answer # validated_answer

\* C3: when main is between questions, presents the next question or has
\* finished, every question before position qi has exactly one record in the
\* in-memory report and exactly one in the saved file; while run_question
\* runs for item qi the in-memory report has one for every earlier item.
C3_NoQuestionSkipped ==
  /\ (pc \in {"main", "ask", "done"} /\ qi > 1) =>
       \A ld \in {Loaded} :
         /\ ld.ok
         /\ \A k \in 1..(qi - 1) :
              /\ CountOf(responses, QuestionText(k)) = 1
              /\ CountOf(ld.value, QuestionText(k)) = 1
  /\ InRunQuestion =>
       \A k \in 1..(qi - 1) : CountOf(responses, QuestionText(k)) = 1
  /\ pc = "done" => qi = Len(questions_list) + 1

\* C3 witness: the interview of a questionnaire of two different questions
\* has finished.
C3_Witness ==
  /\ pc = "done"
  /\ Len(questions_list) >= 2
  /\ QuestionText(1) # QuestionText(2)

RECURSIVE FirstOccurrences(_)
\* The distinct elements of a sequence in the order of their first occurrence.
FirstOccurrences(s) ==
  IF s = <<>> THEN <<>>
  ELSE LET rest == FirstOccurrences(SubSeq(s, 1, Len(s) - 1)) IN
         IF \E i \in 1..Len(rest) : rest[i] = s[Len(s)] THEN rest
         ELSE Append(rest, s[Len(s)])

QuestionnaireOrder ==
  FirstOccurrences([k \in 1..Len(questions_list) |-> QuestionText(k)])

IsRecorded(q) == AlreadyRecorded(responses, q)

\* C6: the questions of the report are, in order, the questionnaire's distinct
\* questions in first-occurrence order, restricted to those recorded so far;
\* at the end the saved file lists all of them in that order.
C6_QuestionnaireOrder ==
  /\ QuestionsOf(responses) = SelectSeq(QuestionnaireOrder, IsRecorded)
  /\ pc = "done" =>
       \A ld \in {Loaded} : ld.ok /\ QuestionsOf(ld.value) = QuestionnaireOrder

\* C6 witness: a three-item questionnaire whose first text comes again as the
\* third item has been completed with two records.
C6_Witness ==
  /\ pc = "done"
  /\ Len(questions_list) = 3
  /\ QuestionText(1) = QuestionText(3)
  /\ Len(responses) = 2

\* C7: every record's Answer is YES, NO or NOT APPLICABLE and is the format
\* classification of its own Entire Answer; the report does not change while
\* record_answer validates and re-prompts.
C7_RecordsAreWellFormed ==
  /\ [](\A i \in 1..Len(responses) :
          /\ responses[i].Answer \in valid_starts
          /\ responses[i].Answer = validate_answer(responses[i].EntireAnswer))
  /\ [][(pc \in {"record_answer", "format_prompt"}) => responses' = responses]_vars

\* C7 witness: the reply triaged valid was malformed, the re-prompt loop ran,
\* and the record made afterwards carries the re-prompted reply.
C7_Witness ==
  /\ pc = "returned"
  /\ validate_answer(user_ans) = INVALID
  /\ responses # <<>>
  /\ responses[Len(responses)].Question = context.current_question
  /\ responses[Len(responses)].EntireAnswer = response

\* C9: the value record_answer hands back to run_question is the accepted
\* token of the record of the question, hence non-empty.
C9_ReturnsAcceptedToken ==
  pc = "returned" =>
    /\ Truthy(ra_result)
    /\ \E i \in 1..Len(responses) :
         /\ responses[i].Question = context.current_question
         /\ responses[i].Answer = ra_result

\* The part of a prompt that follows its first n characters and is as long
\* as the current questionnaire item's text.
Embedded(content, n) == SubSeq(content, n + 1, n + Len(QuestionText(qi)))

\* C10: during run_question the context holds the questionnaire's question
\* unchanged; the question printed is that text trimmed, whatever the
\* controller returned; the clarifier's and the checker's inputs and the
\* record carry the original question.
C10_QuestionNeverDrifts ==
  InRunQuestion =>
    /\ context.current_question = QuestionText(qi)
    /\ asked_question # None => asked_question = strip(QuestionText(qi))
    /\ pc \notin {"ask"} => asked_question # None
    /\ input_items.role = "system" => input_items.content = QuestionText(qi)
    /\ input_items.role = "user" =>
         /\ Embedded(input_items.content, Len(ClarifyPrefix)) = QuestionText(qi)
         /\ Len(input_items.content) =
              Len(ClarifyPrefix) + Len(QuestionText(qi)) + Len(UserAskedInfix) + Len(user_ans)
    /\ check_input.role = "user" =>
         /\ Embedded(check_input.content, Len(QuestionPrefix)) = QuestionText(qi)
         /\ Len(check_input.content) =
              Len(QuestionPrefix) + Len(QuestionText(qi)) + Len(AnswerInfix) + Len(user_ans)
    /\ pc \in {"returned", "save_open", "save_dump"} =>
         AlreadyRecorded(responses, QuestionText(qi))

\* C10 witness: a question with surrounding whitespace has been asked,
\* checked and recorded; what was printed differs from the stored text only
\* by the trimming.
C10_Witness ==
  /\ pc = "returned"
  /\ input_items.role = "system"
  /\ check_input.role = "user"
  /\ classify_answer(context.user_response) = "valid"
  /\ asked_question # context.current_question
  /\ asked_question = strip(context.current_question)

\* C8: two interviews that get the same questions, replies and controller
\* outputs but different answer-checker verdicts are at the same control
\* point, have printed the same question, hold the same replies and have the
\* same report in memory and on disk; and the answer checker has run not at
\* all before the clarification loop is left and exactly once from then on.
C8_VerdictIsIgnored ==
  /\ twin.pc = pc
  /\ twin.qi = qi
  /\ twin.asked_question = asked_question
  /\ twin.user_ans = user_ans
  /\ twin.response = response
  /\ twin.recorded_msg = recorded_msg
  /\ twin.responses = responses
  /\ twin.file = file
  /\ pc \in {"ask", "await_answer", "await_invalid", "await_clarified",
             "clarify", "reask", "answer_check"} => checker_runs = 0
  /\ pc \in {"record_answer", "format_prompt", "store", "returned"} =>
       checker_runs = 1
  /\ (pc \in {"save_open", "save_dump"} /\ qi <= Len(questions_list)) =>
       checker_runs = 1

\* C8 witness: the two interviews have been through record_answer for the
\* same question, one on the verdict off_topic and the other on valid.
C8_Witness ==
  /\ pc = "returned"
  /\ input_items.role = "system"
  /\ ACclassification = <<"o", "f", "f", "_", "t", "o", "p", "i", "c">>
  /\ twin.ACclassification = <<"v", "a", "l", "i", "d">>
  /\ AlreadyRecorded(responses, context.current_question)

\* A save_report call has completed and nothing has happened since.
SaveCompleted == pc \in {"main", "done"} /\ file.exists

\* C11: after every completed save a fresh load of the file succeeds and
\* gives exactly the in-memory records, in order, with nothing left over
\* from an earlier save.
C11_SaveRoundTrip ==
  SaveCompleted => \A ld \in {Loaded} : ld.ok /\ ld.value = responses

\* C11 witness: a save has completed that rewrote the file of an earlier
\* save without a new record (a repeated text, then the final save), the
\* report holding a question with a quote and a backslash in it.
C11_Witness ==
  /\ pc = "done"
  /\ Len(questions_list) >= 2
  /\ Len(responses) = 1
  /\ responses[1].Question = Q_LOGS
  /\ Loaded.ok

\* C12: when the orchestrator waits for the reply after a clarification it
\* has, since the reply that was triaged clarification, run the clarifier
\* once on the current question and that reply and then printed the current
\* question once, and nothing else, whatever the controller runs returned.
C12_ClarifyThenReAskOnce ==
  pc = "await_clarified" =>
    events = << ClarifierRun(context.current_question, user_ans),
                Printed(strip(context.current_question)) >>

\* ------------------------------------------------------------------------
\* The interview under fairness
\* ------------------------------------------------------------------------
\* The replies classify_answer calls valid, and the well-formed replies: those
\* that start with YES, NO or NOT APPLICABLE.
ValidReplies == {raw \in Replies : classify_answer(strip(raw)) = "valid"}

WellFormedReplies == {raw \in Replies : FormatToken(strip(raw)) # INVALID}

\* The respondent gives a reply that classify_answer calls valid.
ValidReply ==
  \E raw \in ValidReplies : ReadReply(raw) /\ UNCHANGED twin

\* The respondent gives a well-formed reply to the format prompt.
WellFormedReply ==
  \E raw \in WellFormedReplies : FormatReprompt(raw) /\ UNCHANGED twin

\* Bound of the questionnaires of SpecLive.
MaxLiveItems == 2

InitLive == Init /\ Len(questions_list) <= MaxLiveItems

\* The step of ValidateResponse told by its outcome alone: record_answer is
\* left for the format prompt or for the store with some result of
\* validate_answer. It is possible exactly when ValidateResponse is, and every
\* ValidateResponse step is one.
Validated ==
  /\ pc = "record_answer"
  /\ pc' \in {"format_prompt", "store"}
  /\ validated_answer' \in valid_starts \cup {INVALID}
  /\ UNCHANGED <<events, questions_list, qi, context, asked_question,
                 input_items, user_ans, classification, check_input,
                 ACclassification, response, ra_result, recorded_msg,
                 responses, file, checker_runs, twin>>

\* Every step of Next but ValidateResponse.
Progress ==
  \/ StartQuestion /\ UNCHANGED twin
  \/ \E out \in RephraserOutputs(context.current_question) :
       AskQuestion(out) /\ UNCHANGED twin
  \/ \E raw \in Replies : ReadReply(raw) /\ UNCHANGED twin
  \/ Clarify /\ UNCHANGED twin
  \/ \E out \in RephraserOutputs(context.current_question) :
       ReAsk(out) /\ UNCHANGED twin
  \/ \E out \in CheckerOutputs : AnswerCheck(out) /\ UNCHANGED twin
  \/ \E raw \in Replies : FormatReprompt(raw) /\ UNCHANGED twin
  \/ StoreAnswer /\ UNCHANGED twin
  \/ AfterRecord /\ UNCHANGED twin
  \/ FinalSave /\ UNCHANGED twin
  \/ SaveOpen /\ UNCHANGED twin
  \/ SaveDump /\ UNCHANGED twin

\* Every call returns and every input() is answered: a step is taken whenever
\* one is possible. The two strong conditions are the respondent's: asked
\* again and again, they give a reply that classify_answer calls valid, and,
\* prompted for the format again and again, they give a well-formed reply.
SpecLive ==
  /\ InitLive
  /\ [][Next]_vars
  /\ WF_vars(Progress)
  /\ WF_vars(Validated)
  /\ SF_vars(ValidReply)
  /\ SF_vars(WellFormedReply)

\* C13: under that fairness every run_question that starts returns with a
\* record for its question in the report, and the interview ends.
C13_InterviewTerminates ==
  /\ (pc = "ask") ~> (pc = "returned" /\ IsRecorded(context.current_question))
  /\ <>(pc = "done")

\* C14: every reply read at the format prompt becomes the context's
\* user_response, and every record that is appended holds, as its entire
\* answer, the context's user_response of that moment.
C14_ContextHoldsLastReply ==
  [][/\ (pc = "format_prompt") => (context'.user_response = response')
     /\ (Len(responses') > Len(responses)) =>
          (responses'[Len(responses')].EntireAnswer = context'.user_response)]_vars

\* C15: at every step the report before the step is a prefix of the report
\* after it, and the step adds at most one record.
C15_AppendOnly ==
  [][/\ Len(responses) <= Len(responses')
     /\ Len(responses') <= Len(responses) + 1
     /\ SubSeq(responses', 1, Len(responses)) = responses]_vars

\* The second run_question has appended its record behind the first one.
C15_Witness ==
  /\ Len(responses) = 2
  /\ pc = "returned"
  /\ qi = 2

\* C16: once a save has completed (every run_question ends with one, so from
\* the second item on), the report file parses at every moment, also between
\* the open and the dump of a later save, and what it holds is the report of
\* the previous save or of this one: the in-memory report, or that without
\* its last record.
C16_SnapshotAtEveryMoment ==
  (file.exists /\ qi >= 2) =>
    \A ld \in {Loaded} :
      /\ ld.ok
      /\ Len(ld.value) \in {Len(responses) - 1, Len(responses)}
      /\ ld.value = SubSeq(responses, 1, Len(ld.value))

\* C17 as stated: every record of the report holds a reply that
\* classify_answer calls valid.
C17_RecordedRepliesAreValid ==
  \A i \in 1..Len(responses) :
    classify_answer(responses[i].EntireAnswer) = "valid"

\* run_question is past its loops of lines 215-251 for the current item.
PastTriage ==
  pc \in {"answer_check", "record_answer", "format_prompt", "store", "returned"}

\* C17, amended: the reply run_question hands to record_answer is one that
\* classify_answer calls valid, and so is the entire answer of a record made
\* from that reply; a reply given to the format prompt of record_answer is
\* not classified.
C17_HandedRepliesAreValid ==
  /\ [](PastTriage => classify_answer(user_ans) = "valid")
  /\ [][(Len(responses') > Len(responses) /\ response = user_ans) =>
          classify_answer(responses'[Len(responses')].EntireAnswer) = "valid"]_vars

\* The first run_question has recorded, after a clarification round or not,
\* the reply it handed to record_answer.
C17_Witness ==
  /\ pc = "returned"
  /\ qi = 1
  /\ Len(responses) = 1
  /\ response = user_ans
  /\ responses[1].EntireAnswer = user_ans

\* C18: classify_answer never returns invalid, so the loop of lines 215-219
\* is never entered; a reply is rejected for its format only inside
\* record_answer, after the answer checker has run for the question.
C18_InvalidLoopUnreachable ==
  /\ classification # "invalid"
  /\ pc # "await_invalid"
  /\ (pc = "format_prompt") => (checker_runs = 1 /\ validated_answer = INVALID)

\* A reply has been rejected for its format.
C18_Witness ==
  /\ pc = "format_prompt"
  /\ classification = "valid"
  /\ validate_answer(user_ans) = INVALID

====
